---- MODULE Spec2Model ----
(***************************************************************************)
(* A model of the power-of-two-choices endpoint pool, P2cPool, of          *)
(* linkerd/proxy/balance/src/pool/p2c.rs: the endpoint registry, the       *)
(* readiness cache it drives, the selection kept between poll_ready and    *)
(* call, and the metrics.                                                  *)
(***************************************************************************)
EXTENDS Integers, Sequences, FiniteSets, TLC

\* Bounds of the model.
NumAddrs == 2
NumTargets == 2
NumLoads == 2
MaxLen == 2
MaxUpdates == 2
MaxReady == 4

\* Socket addresses (192.168.10.10, 192.168.10.11, ... of the tests), target
\* descriptors (T: Clone + Eq) and load metrics (S::Metric, ordered).
Addrs == 10..(9 + NumAddrs)
Targets == 0..(NumTargets - 1)
Loads == 0..(NumLoads - 1)

\* What an endpoint's Service::poll_ready may answer to one probe.
Answers == {"ready", "pending", "failed"}

SeqsUpTo(S, n) == UNION {[1..k -> S] : k \in 0..n}

\* Vec<(SocketAddr, T)> and Vec<SocketAddr>, up to MaxLen entries; an address
\* may occur more than once.
TargetLists == SeqsUpTo(Addrs \X Targets, MaxLen)
AddrLists == SeqsUpTo(Addrs, MaxLen)

\* The four variants of Update<T>.
Updates ==
    {[kind |-> k, targets |-> l, addrs |-> <<>>] : k \in {"Reset", "Add"}, l \in TargetLists}
    \cup {[kind |-> "Remove", targets |-> <<>>, addrs |-> l] : l \in AddrLists}
    \cup {[kind |-> "DoesNotExist", targets |-> <<>>, addrs |-> <<>>]}

NoUpdate == [kind |-> "None", targets |-> <<>>, addrs |-> <<>>]

VARIABLES
    endpoints,   \* P2cPool.endpoints: AHashMap<SocketAddr, T>
    pending,     \* P2cPool.pool, the pending partition: sequence of services
    ready,       \* P2cPool.pool, the ready partition: sequence of services
    next_idx,    \* P2cPool.next_idx: <<>> is None, <<i>> is Some(i) (0-based)
    metrics,     \* P2cPool.metrics: the gauge and the four update counters
    pc,          \* "idle", or "poll_ready" inside poll_ready's loop
    last,        \* the operation that ran last, its update and what it returned
    built,       \* the (addr, target) pairs the last operation gave to new_endpoint
    created,     \* how many times the last operation incremented the gauge
    pushed,      \* how many services the last operation pushed into the cache
    evicted,     \* how many cache entries the last operation evicted
    dispatched,  \* <<addr>> when the last operation gave its request to addr
    failed,      \* <<addr>> when the last operation returned addr's failure
    reserved,    \* the endpoint poll_ready last validated, and the updates since
    sel,         \* one run of the selector: its draws, the loads read, the result
    snapshot     \* <<the ready sequence as it was when the reserved index was
                 \* validated>>, <<>> when no index is reserved

vars == <<endpoints, pending, ready, next_idx, metrics, pc, last, built,
          created, pushed, evicted, dispatched, failed, reserved, sel,
          snapshot>>

----------------------------------------------------------------------------
\* AHashMap helpers.

EmptyMap == [x \in {} |-> 0]

MapInsert(m, k, v) == [x \in (DOMAIN m) \cup {k} |-> IF x = k THEN v ELSE m[x]]

MapRemove(m, k) == [x \in (DOMAIN m) \ {k} |-> m[x]]

----------------------------------------------------------------------------
\* The readiness cache (tower::ready_cache::ReadyCache), as section 4.1 of
\* the specification describes it. A service is the (addr, target) pair the
\* factory built it from.

Svc(addr, target) == [addr |-> addr, target |-> target]

HasAddr(s, addr) == \E i \in 1..Len(s) : s[i].addr = addr

Without(s, addr) == SelectSeq(s, LAMBDA e : e.addr # addr)

RemoveAt(s, i) == SubSeq(s, 1, i - 1) \o SubSeq(s, i + 1, Len(s))

AddrsOf(s) == {s[i].addr : i \in 1..Len(s)}

\* push(A, S): the new entry is enqueued as pending; any previous entry for
\* A, in either partition, is dropped.
PoolPush(self, addr, svc) ==
    [self EXCEPT !.pending = Append(Without(self.pending, addr), svc),
                 !.ready = Without(self.ready, addr),
                 !.pushed = @ + 1]

\* evict(A): remove A from either partition.
PoolEvict(self, addr) ==
    [self EXCEPT !.pending = Without(self.pending, addr),
                 !.ready = Without(self.ready, addr),
                 !.evicted = IF HasAddr(self.pending, addr) \/ HasAddr(self.ready, addr)
                             THEN @ + 1 ELSE @]

\* new_endpoint.new_service((addr, target)): the factory call is recorded.
NewService(self, addr, target) ==
    [self EXCEPT !.built = Append(@, <<addr, target>>)]

\* poll_pending(cx): every pending entry is probed once, in order. One that
\* answers ready is appended to the ready sequence, one that answers pending
\* stays, and the first one that fails is removed and its failure returned.
\* Ready only when no entry is left pending.
RECURSIVE PollPendingFrom(_, _, _, _)
PollPendingFrom(todo, kept, rdy, ans) ==
    IF todo = <<>>
    THEN [pending |-> kept, ready |-> rdy,
          res |-> IF kept = <<>> THEN "Ready" ELSE "Pending", failed |-> <<>>]
    ELSE LET svc == Head(todo)
         IN  IF ans[svc.addr] = "ready"
             THEN PollPendingFrom(Tail(todo), kept, Append(rdy, svc), ans)
             ELSE IF ans[svc.addr] = "pending"
             THEN PollPendingFrom(Tail(todo), Append(kept, svc), rdy, ans)
             ELSE [pending |-> kept \o Tail(todo), ready |-> rdy,
                   res |-> "Err", failed |-> <<svc.addr>>]

PollPending(pnd, rdy, ans) == PollPendingFrom(pnd, <<>>, rdy, ans)

\* check_ready_index(cx, i): the ready entry at index i is probed again. Still
\* ready: true. Pending: it moves back to pending and the ready sequence
\* shrinks at i: false. Failed: it is removed and its failure returned.
CheckReadyIndex(pnd, rdy, i, answer) ==
    IF i + 1 > Len(rdy)
    THEN [pending |-> pnd, ready |-> rdy, res |-> "false", failed |-> <<>>]
    ELSE IF answer = "ready"
    THEN [pending |-> pnd, ready |-> rdy, res |-> "true", failed |-> <<>>]
    ELSE IF answer = "pending"
    THEN [pending |-> Append(pnd, rdy[i + 1]), ready |-> RemoveAt(rdy, i + 1),
          res |-> "false", failed |-> <<>>]
    ELSE [pending |-> pnd, ready |-> RemoveAt(rdy, i + 1),
          res |-> "Err", failed |-> <<rdy[i + 1].addr>>]

\* call_ready_index(i, req): the request goes to the ready entry at index i,
\* which then moves back to pending.
CallReadyIndex(pnd, rdy, i) ==
    [pending |-> Append(pnd, rdy[i + 1]), ready |-> RemoveAt(rdy, i + 1),
     dispatched |-> <<rdy[i + 1].addr>>]

\* metrics.endpoints.inc() and metrics.endpoints.dec().
GaugeInc(self) == [self EXCEPT !.gauge = @ + 1, !.created = @ + 1]

GaugeDec(self) == [self EXCEPT !.gauge = @ - 1]

----------------------------------------------------------------------------
\* P2cPool::reset.

\* The body of the loop over the update's targets.
ResetTarget(self, remaining, addr, target) ==
    LET had == addr \in DOMAIN remaining
        s1 == IF had /\ remaining[addr] = target
              THEN self
              ELSE LET s0 == IF ~had THEN GaugeInc(self) ELSE self
                   IN  [PoolPush(NewService(s0, addr, target), addr, Svc(addr, target))
                        EXCEPT !.changed = TRUE]
    IN  [s1 EXCEPT !.endpoints = MapInsert(@, addr, target)]

\* The loop that drains what the update did not name.
RECURSIVE ResetRemaining(_, _)
ResetRemaining(self, remaining) ==
    IF DOMAIN remaining = {}
    THEN self
    ELSE LET addr == CHOOSE a \in DOMAIN remaining : TRUE
         IN  ResetRemaining([GaugeDec(PoolEvict(self, addr)) EXCEPT !.changed = TRUE],
                            MapRemove(remaining, addr))

RECURSIVE ResetTargets(_, _, _)
ResetTargets(self, remaining, targets) ==
    IF targets = <<>>
    THEN ResetRemaining(self, remaining)
    ELSE LET addr == Head(targets)[1]
             target == Head(targets)[2]
         IN  ResetTargets(ResetTarget(self, remaining, addr, target),
                          MapRemove(remaining, addr), Tail(targets))

ResetKeepsRegistry(self, targets) ==
    ResetTargets(self, self.endpoints, targets)

Reset(self, targets) ==
    ResetTargets([self EXCEPT !.endpoints = EmptyMap], self.endpoints, targets)

----------------------------------------------------------------------------
\* P2cPool::add.

AddTargetCountsRebuild(self, addr, target) ==
    IF addr \in DOMAIN self.endpoints /\ self.endpoints[addr] = target
    THEN self
    ELSE [PoolPush(NewService(GaugeInc([self EXCEPT !.endpoints = MapInsert(@, addr, target)]),
                              addr, target),
                   addr, Svc(addr, target))
          EXCEPT !.changed = TRUE]

AddTarget(self, addr, target) ==
    IF addr \in DOMAIN self.endpoints /\ self.endpoints[addr] = target
    THEN self
    ELSE LET s0 == IF addr \in DOMAIN self.endpoints
                   THEN [self EXCEPT !.endpoints = MapInsert(@, addr, target)]
                   ELSE GaugeInc([self EXCEPT !.endpoints = MapInsert(@, addr, target)])
         IN  [PoolPush(NewService(s0, addr, target), addr, Svc(addr, target))
              EXCEPT !.changed = TRUE]

RECURSIVE Add(_, _)
Add(self, targets) ==
    IF targets = <<>>
    THEN self
    ELSE Add(AddTarget(self, Head(targets)[1], Head(targets)[2]), Tail(targets))

----------------------------------------------------------------------------
\* P2cPool::remove.

RemoveAddrKeepsService(self, addr) ==
    IF addr \in DOMAIN self.endpoints
    THEN [GaugeDec([self EXCEPT !.endpoints = MapRemove(@, addr)])
          EXCEPT !.changed = TRUE]
    ELSE self

RemoveAddrUnchecked(self, addr) ==
    [GaugeDec(PoolEvict([self EXCEPT !.endpoints = MapRemove(@, addr)], addr))
     EXCEPT !.changed = TRUE]

RemoveAddr(self, addr) ==
    IF addr \in DOMAIN self.endpoints
    THEN [GaugeDec(PoolEvict([self EXCEPT !.endpoints = MapRemove(@, addr)], addr))
          EXCEPT !.changed = TRUE]
    ELSE self

RECURSIVE Remove(_, _)
Remove(self, addrs) ==
    IF addrs = <<>>
    THEN self
    ELSE Remove(RemoveAddr(self, Head(addrs)), Tail(addrs))

----------------------------------------------------------------------------
\* P2cPool::clear.

RECURSIVE ClearDrain(_)
ClearDrain(self) ==
    IF DOMAIN self.endpoints = {}
    THEN self
    ELSE LET addr == CHOOSE a \in DOMAIN self.endpoints : TRUE
         IN  ClearDrain(GaugeDec(PoolEvict([self EXCEPT !.endpoints = MapRemove(@, addr)],
                                           addr)))

Clear(self) ==
    ClearDrain([self EXCEPT !.changed = (DOMAIN self.endpoints # {})])

----------------------------------------------------------------------------
\* P2cMetrics::inc.

MetricsIncMiscounts(m, update) ==
    IF update.kind = "Reset" THEN [m EXCEPT !.updates_reset = @ + 1]
    ELSE IF update.kind = "Add" THEN [m EXCEPT !.updates_add = @ + 1]
    ELSE [m EXCEPT !.updates_rm = @ + 1]

MetricsInc(m, update) ==
    IF update.kind = "Reset" THEN [m EXCEPT !.updates_reset = @ + 1]
    ELSE IF update.kind = "Add" THEN [m EXCEPT !.updates_add = @ + 1]
    ELSE IF update.kind = "Remove" THEN [m EXCEPT !.updates_rm = @ + 1]
    ELSE [m EXCEPT !.updates_dne = @ + 1]

UpdatesSeen == metrics.updates_reset + metrics.updates_add
               + metrics.updates_rm + metrics.updates_dne

----------------------------------------------------------------------------
\* Pool::update_pool.

\* The pool as the update methods see it: the registry, the cache, the
\* gauge, and what the update has done so far.
Self ==
    [endpoints |-> endpoints, pending |-> pending, ready |-> ready,
     gauge |-> metrics.endpoints, built |-> <<>>, created |-> 0, pushed |-> 0,
     evicted |-> 0, changed |-> FALSE]

\* The match on the update's variant.
ApplyUpdate(self, update) ==
    IF update.kind = "Reset" THEN Reset(self, update.targets)
    ELSE IF update.kind = "Add" THEN Add(self, update.targets)
    ELSE IF update.kind = "Remove" THEN Remove(self, update.addrs)
    ELSE Clear(self)

\* `if changed` left out: the reserved index outlives every update.
InvalidateNever(changed, idx) == idx

\* next_idx after the update: None if the update changed the pool.
Invalidate(changed, idx) == IF changed THEN <<>> ELSE idx

\* The updates applied since poll_ready validated an endpoint (upd): 0 none,
\* 1 only updates that left the cache alone, 2 an update that pushed or
\* evicted an entry.
Since(resv, r) ==
    IF resv.addr = <<>> THEN resv
    ELSE IF r.pushed + r.evicted > 0 THEN [resv EXCEPT !.upd = 2]
    ELSE IF resv.upd = 0 THEN [resv EXCEPT !.upd = 1]
    ELSE resv

UpdatePool(update) ==
    /\ pc = "idle"
    /\ UpdatesSeen < MaxUpdates
    /\ LET m == MetricsInc(metrics, update)
           r == ApplyUpdate(Self, update)
       IN  /\ endpoints' = r.endpoints
           /\ pending' = r.pending
           /\ ready' = r.ready
           /\ metrics' = [m EXCEPT !.endpoints = r.gauge]
           /\ next_idx' = Invalidate(r.changed, next_idx)
           /\ built' = r.built
           /\ created' = r.created
           /\ pushed' = r.pushed
           /\ evicted' = r.evicted
           /\ reserved' = Since(reserved, r)
           /\ snapshot' = Invalidate(r.changed, snapshot)
    /\ last' = [op |-> "update_pool", update |-> update, res |-> "done"]
    /\ dispatched' = <<>>
    /\ failed' = <<>>
    /\ pc' = "idle"
    /\ sel' = sel

----------------------------------------------------------------------------
\* gen_pair: aidx is the draw from 0..len, braw the draw from 0..(len - 1).

\* `if bidx >= aidx { bidx += 1 }` left out.
GenPairNoShift(aidx, braw, len) == <<aidx, braw>>

GenPair(aidx, braw, len) ==
    <<aidx, IF braw >= aidx THEN braw + 1 ELSE braw>>

\* P2cPool::ready_index_load: load[addr] is what the endpoint at addr reports.
ReadyIndexLoad(rdy, load, index) == load[rdy[index + 1].addr]

\* `0 | 1 => Some(0)` in place of `0 => None, 1 => Some(0)`.
P2cReadyIndexNeverNone(rdy, aidx, braw, load) ==
    IF Len(rdy) <= 1 THEN <<0>>
    ELSE LET pair == GenPair(aidx, braw, Len(rdy))
             aload == ReadyIndexLoad(rdy, load, pair[1])
             bload == ReadyIndexLoad(rdy, load, pair[2])
         IN  IF aload <= bload THEN <<pair[1]>> ELSE <<pair[2]>>

\* `aload < bload` in place of `aload <= bload`.
P2cReadyIndexTieToB(rdy, aidx, braw, load) ==
    IF Len(rdy) = 0 THEN <<>>
    ELSE IF Len(rdy) = 1 THEN <<0>>
    ELSE LET pair == GenPair(aidx, braw, Len(rdy))
             aload == ReadyIndexLoad(rdy, load, pair[1])
             bload == ReadyIndexLoad(rdy, load, pair[2])
         IN  IF aload < bload THEN <<pair[1]>> ELSE <<pair[2]>>

\* P2cPool::p2c_ready_index.
P2cReadyIndex(rdy, aidx, braw, load) ==
    IF Len(rdy) = 0 THEN <<>>
    ELSE IF Len(rdy) = 1 THEN <<0>>
    ELSE LET pair == GenPair(aidx, braw, Len(rdy))
             aload == ReadyIndexLoad(rdy, load, pair[1])
             bload == ReadyIndexLoad(rdy, load, pair[2])
         IN  IF aload <= bload THEN <<pair[1]>> ELSE <<pair[2]>>

\* What the endpoints at the addresses S may answer to one probe each, and the
\* loads they may report: the endpoints that are not asked are left out of the
\* choice.
Probes(S) ==
    {[a \in Addrs |-> IF a \in S THEN f[a] ELSE "pending"] : f \in [S -> Answers]}

LoadsOf(S) ==
    {[a \in Addrs |-> IF a \in S THEN f[a] ELSE 0] : f \in [S -> Loads]}

\* What the random source may give gen_pair for a ready set of len entries.
DrawsA(len) == IF len >= 2 THEN 0..(len - 1) ELSE {0}

DrawsB(len) == IF len >= 2 THEN 0..(len - 2) ELSE {0}

----------------------------------------------------------------------------
\* Pool::poll_pool.

\* poll_pool that also drops the reserved index (`self.next_idx = None`).
PollPoolClearsSelection ==
    /\ pc = "idle"
    /\ \E ans \in Probes(AddrsOf(pending)) :
          LET pp == PollPending(pending, ready, ans)
          IN  /\ pending' = pp.pending
              /\ ready' = pp.ready
              /\ failed' = pp.failed
              /\ last' = [op |-> "poll_pool", update |-> NoUpdate, res |-> pp.res]
    /\ next_idx' = <<>>
    /\ built' = <<>>
    /\ created' = 0
    /\ pushed' = 0
    /\ evicted' = 0
    /\ dispatched' = <<>>
    /\ UNCHANGED <<endpoints, metrics, pc, reserved, sel, snapshot>>

PollPool ==
    /\ pc = "idle"
    /\ \E ans \in Probes(AddrsOf(pending)) :
          LET pp == PollPending(pending, ready, ans)
          IN  /\ pending' = pp.pending
              /\ ready' = pp.ready
              /\ failed' = pp.failed
              /\ last' = [op |-> "poll_pool", update |-> NoUpdate, res |-> pp.res]
    /\ built' = <<>>
    /\ created' = 0
    /\ pushed' = 0
    /\ evicted' = 0
    /\ dispatched' = <<>>
    /\ UNCHANGED <<endpoints, next_idx, metrics, pc, reserved, sel, snapshot>>

----------------------------------------------------------------------------
\* Service::poll_ready.

\* self.next_idx = Some(idx).
SelectedFirst(idx) == <<0>>

Selected(idx) == <<idx>>

\* `return Poll::Pending` in place of `continue` when the re-check finds the
\* selected endpoint not ready.
PollReadyPassGivesUp(pnd, rdy, idx0, ans, aidx, braw, load, answer) ==
    LET pp == PollPending(pnd, rdy, ans)
        idx == IF idx0 # <<>> THEN idx0 ELSE P2cReadyIndex(pp.ready, aidx, braw, load)
        chk == CheckReadyIndex(pp.pending, pp.ready, idx[1], answer)
    IN  IF pp.res = "Err"
        THEN [pending |-> pp.pending, ready |-> pp.ready, next_idx |-> idx0,
              res |-> "Err", failed |-> pp.failed, validated |-> <<>>]
        ELSE IF idx = <<>>
        THEN [pending |-> pp.pending, ready |-> pp.ready, next_idx |-> <<>>,
              res |-> "Pending", failed |-> <<>>, validated |-> <<>>]
        ELSE IF chk.res = "Err"
        THEN [pending |-> chk.pending, ready |-> chk.ready, next_idx |-> <<>>,
              res |-> "Err", failed |-> chk.failed, validated |-> <<>>]
        ELSE IF chk.res = "false"
        THEN [pending |-> chk.pending, ready |-> chk.ready, next_idx |-> <<>>,
              res |-> "Pending", failed |-> <<>>, validated |-> <<>>]
        ELSE [pending |-> chk.pending, ready |-> chk.ready, next_idx |-> Selected(idx[1]),
              res |-> "Ready", failed |-> <<>>,
              validated |-> <<chk.ready[idx[1] + 1].addr>>]

\* The re-check's error is dropped (`unwrap_or(false)` in place of `?`) and
\* the loop goes on.
PollReadyPassDropsError(pnd, rdy, idx0, ans, aidx, braw, load, answer) ==
    LET pp == PollPending(pnd, rdy, ans)
        idx == IF idx0 # <<>> THEN idx0 ELSE P2cReadyIndex(pp.ready, aidx, braw, load)
        chk == CheckReadyIndex(pp.pending, pp.ready, idx[1], answer)
    IN  IF pp.res = "Err"
        THEN [pending |-> pp.pending, ready |-> pp.ready, next_idx |-> idx0,
              res |-> "Err", failed |-> pp.failed, validated |-> <<>>]
        ELSE IF idx = <<>>
        THEN [pending |-> pp.pending, ready |-> pp.ready, next_idx |-> <<>>,
              res |-> "Pending", failed |-> <<>>, validated |-> <<>>]
        ELSE IF chk.res \in {"Err", "false"}
        THEN [pending |-> chk.pending, ready |-> chk.ready, next_idx |-> <<>>,
              res |-> "continue", failed |-> <<>>, validated |-> <<>>]
        ELSE [pending |-> chk.pending, ready |-> chk.ready, next_idx |-> Selected(idx[1]),
              res |-> "Ready", failed |-> <<>>,
              validated |-> <<chk.ready[idx[1] + 1].addr>>]

\* One pass of the loop: ans is what the pending endpoints answer to
\* poll_pending, aidx, braw and load what the selector draws and reads, and
\* answer what the selected endpoint answers to the re-check. res is what
\* poll_ready returns, or "continue"; validated is the endpoint at the index
\* the re-check found ready.
PollReadyPass(pnd, rdy, idx0, ans, aidx, braw, load, answer) ==
    LET pp == PollPending(pnd, rdy, ans)
        idx == IF idx0 # <<>> THEN idx0 ELSE P2cReadyIndex(pp.ready, aidx, braw, load)
        chk == CheckReadyIndex(pp.pending, pp.ready, idx[1], answer)
    IN  IF pp.res = "Err"
        THEN [pending |-> pp.pending, ready |-> pp.ready, next_idx |-> idx0,
              res |-> "Err", failed |-> pp.failed, validated |-> <<>>]
        ELSE IF idx = <<>>
        THEN [pending |-> pp.pending, ready |-> pp.ready, next_idx |-> <<>>,
              res |-> "Pending", failed |-> <<>>, validated |-> <<>>]
        ELSE IF chk.res = "Err"
        THEN [pending |-> chk.pending, ready |-> chk.ready, next_idx |-> <<>>,
              res |-> "Err", failed |-> chk.failed, validated |-> <<>>]
        ELSE IF chk.res = "false"
        THEN [pending |-> chk.pending, ready |-> chk.ready, next_idx |-> <<>>,
              res |-> "continue", failed |-> <<>>, validated |-> <<>>]
        ELSE [pending |-> chk.pending, ready |-> chk.ready, next_idx |-> Selected(idx[1]),
              res |-> "Ready", failed |-> <<>>,
              validated |-> <<chk.ready[idx[1] + 1].addr>>]

PollReady ==
    /\ pc \in {"idle", "poll_ready"}
    /\ \E ans \in Probes(AddrsOf(pending)) :
          LET pp == PollPending(pending, ready, ans)
              len == Len(pp.ready)
              drawn == pp.res # "Err" /\ next_idx = <<>> /\ len >= 2
              checked == pp.res # "Err" /\ (next_idx # <<>> \/ len >= 1)
          IN  \E aidx \in DrawsA(IF drawn THEN len ELSE 0),
                 braw \in DrawsB(IF drawn THEN len ELSE 0),
                 load \in LoadsOf(IF drawn THEN AddrsOf(pp.ready) ELSE {}),
                 answer \in (IF checked THEN Answers ELSE {"ready"}) :
                 LET r == PollReadyPass(pending, ready, next_idx, ans, aidx, braw,
                                        load, answer)
                 IN  /\ pending' = r.pending
                     /\ ready' = r.ready
                     /\ next_idx' = r.next_idx
                     /\ failed' = r.failed
                     /\ last' = [op |-> "poll_ready", update |-> NoUpdate, res |-> r.res]
                     /\ pc' = IF r.res = "continue" THEN "poll_ready" ELSE "idle"
                     /\ reserved' = IF r.res = "Ready"
                                    THEN [addr |-> r.validated, upd |-> 0]
                                    ELSE [addr |-> <<>>, upd |-> 0]
                     /\ snapshot' = IF r.res = "Ready" THEN <<r.ready>>
                                    ELSE IF r.next_idx = <<>> THEN <<>>
                                    ELSE snapshot
    /\ built' = <<>>
    /\ created' = 0
    /\ pushed' = 0
    /\ evicted' = 0
    /\ dispatched' = <<>>
    /\ UNCHANGED <<endpoints, metrics, sel>>

----------------------------------------------------------------------------
\* Service::call.

\* The request goes to ready index 0 whatever was reserved.
TakenFirst(idx) == <<0>>

\* `unwrap_or(0)` in place of `expect("call before ready")`.
TakenOrFirst(idx) == IF idx = <<>> THEN <<0>> ELSE idx

\* self.next_idx.take(): the index the request goes to.
Taken(idx) == idx

Call ==
    /\ pc = "idle"
    /\ LET idx == Taken(next_idx)
       IN  IF idx = <<>> \/ idx[1] + 1 > Len(ready)
           THEN /\ last' = [op |-> "call", update |-> NoUpdate, res |-> "panic"]
                /\ dispatched' = <<>>
                /\ UNCHANGED <<pending, ready, reserved>>
           ELSE LET c == CallReadyIndex(pending, ready, idx[1])
                IN  /\ pending' = c.pending
                    /\ ready' = c.ready
                    /\ dispatched' = c.dispatched
                    /\ last' = [op |-> "call", update |-> NoUpdate, res |-> "Future"]
                    /\ reserved' = [addr |-> <<>>, upd |-> 0]
    /\ next_idx' = <<>>
    /\ snapshot' = <<>>
    /\ built' = <<>>
    /\ created' = 0
    /\ pushed' = 0
    /\ evicted' = 0
    /\ failed' = <<>>
    /\ UNCHANGED <<endpoints, metrics, pc, sel>>

----------------------------------------------------------------------------
\* P2cPool::new with P2cMetrics::default().

\* The selector has not run.
Unselected ==
    [aidx |-> 0, braw |-> 0, load |-> EmptyMap, pair |-> <<>>, chosen |-> <<>>,
     done |-> FALSE]

Init ==
    /\ endpoints = EmptyMap
    /\ pending = <<>>
    /\ ready = <<>>
    /\ next_idx = <<>>
    /\ metrics = [endpoints |-> 0, updates_reset |-> 0, updates_add |-> 0,
                  updates_rm |-> 0, updates_dne |-> 0]
    /\ pc = "idle"
    /\ last = [op |-> "new", update |-> NoUpdate, res |-> "done"]
    /\ built = <<>>
    /\ created = 0
    /\ pushed = 0
    /\ evicted = 0
    /\ dispatched = <<>>
    /\ failed = <<>>
    /\ reserved = [addr |-> <<>>, upd |-> 0]
    /\ sel = Unselected
    /\ snapshot = <<>>

\* A pool that only receives discovery updates.
NextUpdates == \E update \in Updates : UpdatePool(update)

SpecUpdates == Init /\ [][NextUpdates]_vars

\* The pool with its owner free to call any operation in any order.
Next ==
    \/ \E update \in Updates : UpdatePool(update)
    \/ PollPool
    \/ PollReady
    \/ Call

Spec == Init /\ [][Next]_vars

\* The same pool with poll_ready's loop running on: a pass that can be taken
\* is taken, as the loop's body is straight-line code of one thread.
FairSpec == Init /\ [][Next]_vars /\ WF_vars(PollReady)

----------------------------------------------------------------------------
\* The selector on its own, as the tests gen_pair_distinct and p2c_ready_index
\* run it: a pool of len ready endpoints, one run of p2c_ready_index with
\* every draw the random source may give and every load the endpoints may
\* report.

SelAddrs(len) == 10..(9 + len)

SelReady(len) == [i \in 1..len |-> Svc(9 + i, 0)]

InitSelector ==
    \E len \in 0..MaxReady :
       /\ endpoints = [a \in SelAddrs(len) |-> 0]
       /\ pending = <<>>
       /\ ready = SelReady(len)
       /\ next_idx = <<>>
       /\ metrics = [endpoints |-> len, updates_reset |-> 0, updates_add |-> 0,
                     updates_rm |-> 0, updates_dne |-> 0]
       /\ pc = "idle"
       /\ last = [op |-> "new", update |-> NoUpdate, res |-> "done"]
       /\ built = <<>>
       /\ created = 0
       /\ pushed = 0
       /\ evicted = 0
       /\ dispatched = <<>>
       /\ failed = <<>>
       /\ reserved = [addr |-> <<>>, upd |-> 0]
       /\ sel \in {[aidx |-> a, braw |-> b, load |-> l, pair |-> <<>>,
                    chosen |-> <<>>, done |-> FALSE] :
                      a \in DrawsA(len), b \in DrawsB(len),
                      l \in [SelAddrs(len) -> Loads]}
       /\ snapshot = <<>>

\* One run of p2c_ready_index; pair is what gen_pair gave it when it was called.
SelectP2c ==
    /\ ~sel.done
    /\ sel' = [sel EXCEPT
                  !.pair = IF Len(ready) >= 2
                           THEN GenPair(sel.aidx, sel.braw, Len(ready))
                           ELSE <<>>,
                  !.chosen = P2cReadyIndex(ready, sel.aidx, sel.braw, sel.load),
                  !.done = TRUE]
    /\ UNCHANGED <<endpoints, pending, ready, next_idx, metrics, pc, last, built,
                   created, pushed, evicted, dispatched, failed, reserved,
                   snapshot>>

NextSelector == SelectP2c

SpecSelector == InitSelector /\ [][NextSelector]_vars

----------------------------------------------------------------------------
\* Helpers of the properties.

Cached == AddrsOf(pending) \cup AddrsOf(ready)

Entries(s, addr) == Cardinality({i \in 1..Len(s) : s[i].addr = addr})

Named(targets) == {targets[i][1] : i \in 1..Len(targets)}

\* The target of the last occurrence of addr in targets.
LastTarget(targets, addr) ==
    LET i == CHOOSE k \in 1..Len(targets) :
                 /\ targets[k][1] = addr
                 /\ \A j \in 1..Len(targets) : targets[j][1] = addr => j <= k
    IN  targets[i][2]

Updated == last'.op = "update_pool"

----------------------------------------------------------------------------
\* C1. Selection stickiness: when the latest poll_ready has returned Ready(Ok)
\* after validating a ready index and no update_pool has been applied since
\* (poll_pool may have run), the next call gives its request to the endpoint
\* that was at that index when poll_ready returned, and leaves next_idx
\* empty.
SelectionStickiness ==
    [][(Call /\ reserved.addr # <<>> /\ reserved.upd = 0)
       => (dispatched' = reserved.addr /\ next_idx' = <<>>)]_vars

\* A call has dispatched while a second endpoint stayed ready.
StickyCallWitness ==
    /\ last.op = "call"
    /\ last.res = "Future"
    /\ dispatched # <<>>
    /\ ready # <<>>
    /\ next_idx = <<>>

\* C2. Gauge faithfulness: from an empty pool, after every update_pool of any
\* sequence of updates (lists may name an address more than once), the
\* endpoint gauge equals the number of addresses in the registry.
GaugeFaithful == metrics.endpoints = Cardinality(DOMAIN endpoints)

\* C3. Registry/cache coherence: after any sequence of update_pool,
\* poll_pool, poll_ready and call, an address is in the registry if and only
\* if it is in the cache, pending or ready.
RegistryCacheCoherent == pc = "idle" => DOMAIN endpoints = Cached

\* C4. Coherence under updates: after update_pool calls alone, every
\* registered address has exactly one cache entry, in pending or in ready and
\* never in both, and every cache entry's address is registered.
CoherentUnderUpdates ==
    /\ \A addr \in DOMAIN endpoints : Entries(pending, addr) + Entries(ready, addr) = 1
    /\ Cached \subseteq DOMAIN endpoints

\* An Add rebuilt one endpoint beside another that it left alone.
CoherentUnderUpdatesWitness ==
    /\ last.update.kind = "Add"
    /\ Cardinality(DOMAIN endpoints) = 2
    /\ Len(pending) = 2
    /\ Len(built) = 1
    /\ created = 0

\* C5. Update counter faithfulness: every update_pool adds exactly one to the
\* counter of its variant and leaves the other three alone, whether or not
\* the membership changed; no other operation moves a counter.
UpdateCounterFaithful ==
    [][LET kind == IF Updated THEN last'.update.kind ELSE "None"
           Step(k) == IF kind = k THEN 1 ELSE 0
       IN  /\ metrics'.updates_reset = metrics.updates_reset + Step("Reset")
           /\ metrics'.updates_add = metrics.updates_add + Step("Add")
           /\ metrics'.updates_rm = metrics.updates_rm + Step("Remove")
           /\ metrics'.updates_dne = metrics.updates_dne + Step("DoesNotExist")]_vars

\* A second DoesNotExist, which changed nothing, has been counted.
UpdateCounterWitness ==
    /\ last.op = "update_pool"
    /\ last.update.kind = "DoesNotExist"
    /\ evicted = 0
    /\ metrics.updates_dne = 2

\* C6. Reset idempotence: applying update_pool(Reset(L)) a second time right
\* after the first leaves the registry and the gauge unchanged, calls the
\* factory zero times and neither pushes nor evicts a cache entry.
ResetIdempotent ==
    [][(/\ last.op = "update_pool"
        /\ last.update.kind = "Reset"
        /\ Updated
        /\ last'.update = last.update)
       => (/\ endpoints' = endpoints
           /\ metrics'.endpoints = metrics.endpoints
           /\ built' = <<>>
           /\ pushed' = 0
           /\ evicted' = 0)]_vars

\* C7. Reset is absolute: after update_pool(Reset(L)) the registry holds
\* exactly the addresses occurring in L, each with the target of its last
\* occurrence in L, whatever the registry held before.
ResetIsAbsolute ==
    [][(Updated /\ last'.update.kind = "Reset")
       => LET targets == last'.update.targets
          IN  endpoints' = [addr \in Named(targets) |-> LastTarget(targets, addr)]]_vars

\* A Reset naming one address twice, with two targets, has dropped an
\* endpoint that was registered before.
ResetIsAbsoluteWitness ==
    /\ last.op = "update_pool"
    /\ last.update.kind = "Reset"
    /\ Len(last.update.targets) = 2
    /\ last.update.targets[1][1] = last.update.targets[2][1]
    /\ last.update.targets[1][2] # last.update.targets[2][2]
    /\ evicted = 1
    /\ DOMAIN endpoints = Named(last.update.targets)

\* C8. Rebuild on target change: update_pool(Add([(A, t1)])) on a registry
\* that holds (A, t0), t0 # t1, or does not hold A, calls the factory exactly
\* once, with (A, t1); the registry then holds (A, t1); A's cache entry is the
\* new service, pending; the gauge is unchanged when A was registered and
\* rises by one when it was not.
RebuildOnTargetChange ==
    [][(/\ Updated
        /\ last'.update.kind = "Add"
        /\ Len(last'.update.targets) = 1
        /\ LET addr == last'.update.targets[1][1]
           IN  addr \in DOMAIN endpoints => endpoints[addr] # last'.update.targets[1][2])
       => LET addr == last'.update.targets[1][1]
              target == last'.update.targets[1][2]
          IN  /\ built' = <<<<addr, target>>>>
              /\ endpoints' = MapInsert(endpoints, addr, target)
              /\ metrics'.endpoints =
                    metrics.endpoints + (IF addr \in DOMAIN endpoints THEN 0 ELSE 1)
              /\ pending' = Append(Without(pending, addr), Svc(addr, target))
              /\ ready' = Without(ready, addr)]_vars

\* An Add has rebuilt a ready endpoint: one factory call, no gauge increment,
\* and the other endpoint still ready.
RebuildWitness ==
    /\ last.op = "update_pool"
    /\ last.update.kind = "Add"
    /\ Len(last.update.targets) = 1
    /\ Len(built) = 1
    /\ created = 0
    /\ evicted = 0
    /\ Len(ready) = 1
    /\ Len(pending) = 1
    /\ metrics.endpoints = 2

\* C9. Remove of unknown addresses is a no-op: update_pool(Remove(L)) takes
\* out of the registry and of the cache exactly the registered addresses of
\* L, with one gauge decrement for each (also when L names it twice); when L
\* names no registered address, the registry, both partitions, the gauge and
\* next_idx stay as they were and only the remove counter moves.
RemoveUnknownIsNoOp ==
    [][(Updated /\ last'.update.kind = "Remove")
       => LET addrs == last'.update.addrs
              hit == {addrs[i] : i \in 1..Len(addrs)} \cap DOMAIN endpoints
          IN  /\ endpoints' = [addr \in (DOMAIN endpoints) \ hit |-> endpoints[addr]]
              /\ pending' = SelectSeq(pending, LAMBDA e : e.addr \notin hit)
              /\ ready' = SelectSeq(ready, LAMBDA e : e.addr \notin hit)
              /\ metrics'.endpoints = metrics.endpoints - Cardinality(hit)
              /\ hit = {} =>
                    /\ next_idx' = next_idx
                    /\ metrics' = [metrics EXCEPT !.updates_rm = @ + 1]]_vars

\* A Remove that named no registered address has left a reserved selection
\* in place.
RemoveUnknownWitness ==
    /\ last.op = "update_pool"
    /\ last.update.kind = "Remove"
    /\ last.update.addrs # <<>>
    /\ evicted = 0
    /\ next_idx # <<>>
    /\ ready # <<>>

\* C10. Selection invalidation: an update_pool applied while an index is
\* reserved clears next_idx if and only if it pushed or evicted at least one
\* cache entry; the poll_ready after a clearing update selects from the
\* current ready set; no request is dispatched through an index reserved
\* before an update mutated the cache.
SelectionInvalidation ==
    [][/\ (Updated /\ next_idx # <<>>)
          => ((next_idx' = <<>>) <=> (pushed' + evicted' > 0))
       /\ (last'.op = "poll_ready" /\ last'.res = "Ready")
          => /\ next_idx'[1] < Len(ready')
             /\ reserved'.addr = <<ready'[next_idx'[1] + 1].addr>>
       /\ (last'.op = "call" /\ dispatched' # <<>>)
          => reserved.upd # 2]_vars

\* Every endpoint answers pending; every endpoint reports load 0.
AllPending == [a \in Addrs |-> "pending"]

NoLoad == [a \in Addrs |-> 0]

\* A whole poll_ready on pnd, rdy, idx whose every probe is answered pending
\* returns Pending with the selection empty, within n further passes and
\* whatever the selector draws.
RECURSIVE AllPendingReturnsPending(_, _, _, _)
AllPendingReturnsPending(pnd, rdy, idx, n) ==
    \A aidx \in DrawsA(Len(rdy)), braw \in DrawsB(Len(rdy)) :
       LET r == PollReadyPass(pnd, rdy, idx, AllPending, aidx, braw, NoLoad,
                              "pending")
       IN  IF r.res = "continue"
           THEN n > 0 /\ AllPendingReturnsPending(r.pending, r.ready, r.next_idx, n - 1)
           ELSE r.res = "Pending" /\ r.next_idx = <<>> /\ r.ready = <<>>

\* C11. Selection miss: poll_ready returns Pending only in a state where the
\* ready partition is empty and the selection is empty; on an empty pool and
\* on a pool whose endpoints all answer pending, poll_ready returns Pending
\* (never an error) and the selection stays empty.
SelectionMiss ==
    /\ (last.op = "poll_ready" /\ last.res = "Pending")
       => (ready = <<>> /\ next_idx = <<>>)
    /\ pc = "idle"
       => AllPendingReturnsPending(pending, ready, next_idx, Len(ready))

\* poll_ready has returned Pending on a pool whose endpoints are all pending.
SelectionMissWitness ==
    /\ last.op = "poll_ready"
    /\ last.res = "Pending"
    /\ pending # <<>>
    /\ ready = <<>>
    /\ next_idx = <<>>

\* What each endpoint answers to every probe of one poll_ready call when none
\* fails and each answers the same way throughout the call.
SteadyAnswers == [Addrs -> {"ready", "pending"}]

\* A whole poll_ready on pnd, rdy, idx0 whose probes are answered by f returns
\* Ready(Ok) within n further passes, whatever the selector draws and reads,
\* with the selection at an endpoint of the ready set that answers ready.
RECURSIVE SteadyCallReady(_, _, _, _, _)
SteadyCallReady(pnd, rdy, idx0, f, n) ==
    LET pp == PollPending(pnd, rdy, f)
    IN  \A aidx \in DrawsA(Len(pp.ready)), braw \in DrawsB(Len(pp.ready)),
           load \in LoadsOf(AddrsOf(pp.ready)) :
           LET idx == IF idx0 # <<>> THEN idx0
                      ELSE P2cReadyIndex(pp.ready, aidx, braw, load)
               answer == IF idx # <<>> /\ idx[1] < Len(pp.ready)
                         THEN f[pp.ready[idx[1] + 1].addr]
                         ELSE "pending"
               r == PollReadyPass(pnd, rdy, idx0, f, aidx, braw, load, answer)
           IN  IF r.res = "continue"
               THEN n > 0 /\ SteadyCallReady(r.pending, r.ready, r.next_idx, f, n - 1)
               ELSE /\ r.res = "Ready"
                    /\ r.next_idx # <<>>
                    /\ r.next_idx[1] < Len(r.ready)
                    /\ f[r.ready[r.next_idx[1] + 1].addr] = "ready"

\* C12. Selection hit: if no endpoint fails and at least one endpoint in the
\* cache answers ready to every probe of a poll_ready call, each endpoint
\* answering the same way throughout the call, the call returns Ready(Ok)
\* with selection = Some(i), i < ready_len, and the endpoint at ready index i
\* answered ready to the re-check.
SelectionHit ==
    pc = "idle"
    => \A f \in SteadyAnswers :
          (\E a \in Cached : f[a] = "ready")
          => SteadyCallReady(pending, ready, next_idx, f, Len(pending) + Len(ready))

\* poll_ready has returned Ready(Ok) with a selection inside the ready set
\* while another endpoint stayed pending.
SelectionHitWitness ==
    /\ last.op = "poll_ready"
    /\ last.res = "Ready"
    /\ next_idx # <<>>
    /\ next_idx[1] < Len(ready)
    /\ pending # <<>>

\* C13. Dispatch effect: call with selection = Some(i) moves exactly the
\* endpoint at ready index i from the ready to the pending partition
\* (ready_len decreases by one, pending_len increases by one), changes no
\* other endpoint's cache membership, and leaves registry and gauge unchanged.
DispatchEffect ==
    [][(last'.op = "call" /\ next_idx # <<>>)
       => LET i == next_idx[1] + 1
          IN  /\ i <= Len(ready)
              /\ dispatched' = <<ready[i].addr>>
              /\ ready' = RemoveAt(ready, i)
              /\ pending' = Append(pending, ready[i])
              /\ Len(ready') = Len(ready) - 1
              /\ Len(pending') = Len(pending) + 1
              /\ endpoints' = endpoints
              /\ metrics'.endpoints = metrics.endpoints]_vars

\* A call has dispatched to one endpoint, now last of the pending partition,
\* while another endpoint stays ready.
DispatchEffectWitness ==
    /\ last.op = "call"
    /\ last.res = "Future"
    /\ dispatched # <<>>
    /\ ready # <<>>
    /\ pending # <<>>
    /\ pending[Len(pending)].addr = dispatched[1]
    /\ ready[1].addr # dispatched[1]

\* C14. Call without selection: call with the selection empty aborts with
\* 'call before ready'; it dispatches to no endpoint and moves no endpoint
\* between partitions.
CallBeforeReady ==
    [][(last'.op = "call" /\ next_idx = <<>>)
       => /\ last'.res = "panic"
          /\ dispatched' = <<>>
          /\ pending' = pending
          /\ ready' = ready
          /\ endpoints' = endpoints]_vars

\* A call without selection has aborted though an endpoint was ready.
CallBeforeReadyWitness ==
    /\ last.op = "call"
    /\ last.res = "panic"
    /\ dispatched = <<>>
    /\ ready # <<>>
    /\ next_idx = <<>>

\* C15. Failure cleanup: whenever poll_pool or poll_ready returns Ready(Err)
\* because an endpoint's probe failed, in the pending pass or in the re-check,
\* that endpoint's address is in neither cache partition when the operation
\* returns, and the operation has removed no other endpoint from the cache
\* (none in the pass that returns, none in the passes before it).
FailureCleanup ==
    [][(last'.op \in {"poll_pool", "poll_ready"})
       => /\ last'.res = "Err"
             => /\ failed' # <<>>
                /\ failed'[1] \in Cached
                /\ failed'[1] \notin Cached'
                /\ Cached' = Cached \ {failed'[1]}
          /\ last'.res = "continue" => Cached' = Cached]_vars

\* poll_ready has returned an endpoint's failure; that endpoint has left the
\* cache and another is still there.
FailureCleanupWitness ==
    /\ last.op = "poll_ready"
    /\ last.res = "Err"
    /\ failed # <<>>
    /\ failed[1] \notin Cached
    /\ Cached # {}

\* C16. Pair distinctness: for every len >= 2 and raw draws a in [0, len) and
\* b in [0, len - 1), gen_pair returns a pair (a, b') with a # b' and both
\* components in [0, len).
PairDistinct ==
    (sel.done /\ Len(ready) >= 2)
    => /\ sel.pair[1] = sel.aidx
       /\ sel.pair[1] # sel.pair[2]
       /\ sel.pair[1] \in 0..(Len(ready) - 1)
       /\ sel.pair[2] \in 0..(Len(ready) - 1)

\* gen_pair has shifted the second draw past the first: both draws were the
\* same number.
PairDistinctWitness ==
    /\ sel.done
    /\ Len(ready) >= 3
    /\ sel.aidx = sel.braw
    /\ sel.pair = <<sel.aidx, sel.braw + 1>>

\* The load the selector read for ready index i.
SelLoad(i) == sel.load[ready[i + 1].addr]

\* C17. P2C selection rule: p2c_ready_index returns none when ready_len = 0,
\* index 0 when ready_len = 1, and for ready_len >= 2 one of the two drawn
\* indices whose load is less than or equal to the other's, the first draw a
\* whenever load(a) <= load(b); it never returns an index >= ready_len and
\* does not modify the cache.
P2cSelectionRule ==
    sel.done
    => /\ Len(ready) = 0 => sel.chosen = <<>>
       /\ Len(ready) = 1 => sel.chosen = <<0>>
       /\ Len(ready) >= 2
          => LET a == sel.pair[1]
                 b == sel.pair[2]
             IN  /\ sel.chosen \in {<<a>>, <<b>>}
                 /\ SelLoad(sel.chosen[1]) <= SelLoad(a)
                 /\ SelLoad(sel.chosen[1]) <= SelLoad(b)
                 /\ SelLoad(a) <= SelLoad(b) => sel.chosen = <<a>>
       /\ sel.chosen # <<>> => sel.chosen[1] < Len(ready)
       /\ ready = SelReady(Len(ready))
       /\ pending = <<>>

\* The selector has drawn two endpoints of equal load and returned the first
\* draw, which is not the lower index.
P2cSelectionRuleWitness ==
    /\ sel.done
    /\ Len(ready) >= 3
    /\ SelLoad(sel.pair[1]) = SelLoad(sel.pair[2])
    /\ sel.pair[1] > sel.pair[2]
    /\ sel.chosen = <<sel.pair[1]>>

\* C18. Non-blocking termination: every poll_ready invocation returns after
\* finitely many loop iterations, for every possible behaviour of the
\* endpoints' readiness probes, an endpoint that answers ready in the pending
\* pass and pending in the re-check of the same call included.
PollReadyReturns == (pc = "poll_ready") ~> (pc = "idle")

\* The entries of the partition s that belong to addr.
EntriesOf(s, addr) == {s[i] : i \in {k \in 1..Len(s) : s[k].addr = addr}}

\* C19. Unchanged endpoints are preserved: in update_pool(Reset(L)) and
\* update_pool(Add(L)), for every (A, T) in L such that the registry held
\* (A, T) with an equal target before the update, the factory is not called
\* for A and A's existing service stays in the cache partition it was in;
\* only addresses that are new or whose target differs are rebuilt and
\* enqueued pending.
UnchangedPreserved ==
    [][(Updated /\ last'.update.kind \in {"Reset", "Add"})
       => LET L == last'.update.targets
          IN  /\ \A i \in 1..Len(L) :
                    (L[i][1] \in DOMAIN endpoints /\ endpoints[L[i][1]] = L[i][2])
                    => /\ \A j \in 1..Len(built') : built'[j][1] # L[i][1]
                       /\ EntriesOf(ready', L[i][1]) = EntriesOf(ready, L[i][1])
                       /\ EntriesOf(pending', L[i][1]) = EntriesOf(pending, L[i][1])
              /\ \A j \in 1..Len(built') :
                    \/ built'[j][1] \notin DOMAIN endpoints
                    \/ endpoints[built'[j][1]] # built'[j][2]]_vars

\* C20. Advance does not select: poll_pool leaves next_idx and the registry
\* unchanged in every outcome, never removes or reorders a ready entry (it
\* only appends to the ready partition), and returns Ready(Ok) only if the
\* pending partition is empty when it returns.
AdvanceDoesNotSelect ==
    [][(last'.op = "poll_pool")
       => /\ next_idx' = next_idx
          /\ endpoints' = endpoints
          /\ Len(ready') >= Len(ready)
          /\ SubSeq(ready', 1, Len(ready)) = ready
          /\ last'.res = "Ready" => pending' = <<>>]_vars

\* poll_pool has returned Ready(Ok) with two endpoints ready and the reserved
\* index still in place.
AdvanceDoesNotSelectWitness ==
    /\ last.op = "poll_pool"
    /\ last.res = "Ready"
    /\ pending = <<>>
    /\ Len(ready) = 2
    /\ next_idx # <<>>

\* C21. Invariant I-SEL, as stated: in every state reachable by any
\* interleaving of update_pool, poll_pool, poll_ready and call, if
\* selection = Some(i) then no mutation of the ready sequence has occurred
\* since index i was validated by check_ready_index.
SelectionUnmutated ==
    next_idx # <<>> => snapshot = <<ready>>

\* C21, amended. If selection = Some(i), the ready sequence has only been
\* appended to since index i was validated: the entries at the indices that
\* existed then, index i among them, are the same entries in the same order.
SelectionPrefixStable ==
    next_idx # <<>>
    => /\ snapshot # <<>>
       /\ next_idx[1] < Len(snapshot[1])
       /\ Len(snapshot[1]) <= Len(ready)
       /\ SubSeq(ready, 1, Len(snapshot[1])) = snapshot[1]

\* poll_pool has appended an endpoint to the ready sequence behind a reserved
\* index.
SelectionPrefixStableWitness ==
    /\ last.op = "poll_pool"
    /\ next_idx # <<>>
    /\ snapshot # <<>>
    /\ Len(ready) > Len(snapshot[1])

====
